---- MODULE Spec2Model ----
(***************************************************************************)
(* Model of dawn_native/vulkan/RayTracingAccelerationContainerVk.cpp:      *)
(* the factory Create, the steps of Initialize, the destructor, and the    *)
(* driver / allocator calls they make.                                     *)
(*                                                                         *)
(* Every Create call is one run of Initialize on a fresh object.  The run  *)
(* is split at the step boundaries of Initialize so that the order of the  *)
(* steps and the state an aborted run leaves behind can be observed.  All  *)
(* calls are made on the calling thread, so at most one run is in flight.  *)
(***************************************************************************)
EXTENDS Integers, Sequences, FiniteSets, TLC

\* ------------------------------------------------------------------ bounds

\* number of container objects that can exist at the same time
NumContainers == 2
\* longest instance list of a descriptor
MaxInstances == 2
\* longest geometry list of a descriptor
MaxGeometries == 2

Containers == 1 .. NumContainers

\* ------------------------------------------------------- values and inputs

VK_NULL_HANDLE == "VK_NULL_HANDLE"

\* wgpu::RayTracingAccelerationContainerLevel is "Bottom", "Top" or "Other":
\* any value of the enumeration type that is neither Bottom nor Top.

\* a wgpu buffer as Initialize sees it: the native handle GetHandle returns
BufferHandles == {VK_NULL_HANDLE, "VkBuffer"}

\* RayTracingAccelerationGeometryDescriptor; indexBuffer "nullptr" = absent
GeometryDescriptors ==
    [type : {"Triangles", "Aabbs"},
     vertexBuffer : BufferHandles,
     indexBuffer : {"nullptr"} \cup BufferHandles]

\* a pointer to a structure that is null
nullptr == [null |-> TRUE]

Transform3D(x, y, z) == [x |-> x, y |-> y, z |-> z]

\* instance.transform with the three optional parts absent
NoTransform ==
    [translation |-> nullptr, rotation |-> nullptr, scale |-> nullptr]

\* RayTracingAccelerationInstanceDescriptor: the container it references,
\* with one setting of the fields that are copied into the record
InstanceDescriptors ==
    [transform : {NoTransform},
     instanceId : {0},
     mask : {255},
     instanceOffset : {0},
     flags : {0},
     geometryContainer : Containers]

SeqsUpTo(S, n) == UNION {[1 .. k -> S] : k \in 0 .. n}

\* wgpu::RayTracingAccelerationContainerFlag bits
ContainerFlags ==
    {"AllowUpdate", "PreferFastBuild", "PreferFastTrace", "LowMemory"}

NoDescriptor ==
    [level |-> "none", flags |-> {}, geometries |-> <<>>, instances |-> <<>>]

\* the opaque 64-bit handles vkGetAccelerationStructureHandleNV may write
\* for the structure of object c: the driver's handle for it, or zero
DriverHandles(c) == {0, c}

\* the resources one container can own, by the member that holds them
ResourceKinds ==
    {"accelerationStructure", "instanceBuffer", "instanceMemory",
     "resultMemory", "buildMemory", "buildBuffer", "updateMemory"}

\* a default-constructed ResourceMemoryAllocation
NoAllocation ==
    [kind |-> "none", size |-> [hi |-> 0, lo |-> 0], memory |-> VK_NULL_HANDLE,
     mapped |-> <<>>]

\* ScratchMemoryPool{}
EmptyScratchMemory ==
    [result |-> NoAllocation, build |-> NoAllocation,
     buildBuffer |-> VK_NULL_HANDLE, update |-> NoAllocation]

\* the members of a freshly constructed RayTracingAccelerationContainer
NewContainer ==
    [mLevel |-> "unset",
     mFlags |-> {},
     mGeometries |-> <<>>,
     mInstances |-> <<>>,
     mAccelerationStructure |-> VK_NULL_HANDLE,
     mInstanceBuffer |-> VK_NULL_HANDLE,
     mInstanceResource |-> NoAllocation,
     mScratchMemory |-> EmptyScratchMemory,
     mHandle |-> 0]

\* ------------------------------------------------------------------- state

VARIABLES
    fn,         \* the device's function table: which entry points are loaded
    pc,         \* per object: the step of Initialize it is at, or its fate
    desc,       \* per object: the descriptor its Create call was given
    obj,        \* per object: the members of the container
    live,       \* <<object, kind>>: driver resources created and not released
    aborted,    \* the process was terminated by a failed assertion or a crash
    result,     \* per object: what its Create call returned ("none" so far)
    failStep,   \* per object: the step at which its Initialize failed
    trace,      \* per object: the steps of Initialize that have run, in order
    created,    \* per object: the kinds of resource Initialize created
    released,   \* per object: the kinds of resource the destructor released
    bindCalls,  \* per object: the vkBindAccelerationStructureMemoryNV calls
                \* issued for its structure, in order ("failed" / "bound")
    calls,      \* per object: the driver and allocator calls Initialize has
                \* made, in order, with the arguments that matter
    array,      \* a float[16] a caller of Fill4x3TransformMatrix holds
    composed,   \* the transform last composed into array (NoCall: none yet)
    refComplete \* per object: for each instance of its descriptor, whether
                \* the referenced container had completed its own Initialize
                \* when the instance encoding ran

vars == <<fn, pc, desc, obj, live, aborted, result, failStep, trace, created,
          released, bindCalls, calls, array, composed, refComplete>>

\* ------------------------------------------------------ conversion helpers

\* VulkanAccelerationContainerLevel, for the two levels it maps
VulkanAccelerationContainerLevel(level) ==
    CASE level = "Bottom" -> "VK_ACCELERATION_STRUCTURE_TYPE_BOTTOM_LEVEL_NV"
      [] level = "Top" -> "VK_ACCELERATION_STRUCTURE_TYPE_TOP_LEVEL_NV"
      [] OTHER -> "UNREACHABLE"

NativeLevels ==
    {"VK_ACCELERATION_STRUCTURE_TYPE_BOTTOM_LEVEL_NV",
     "VK_ACCELERATION_STRUCTURE_TYPE_TOP_LEVEL_NV"}

VulkanGeometryType(type) ==
    CASE type = "Triangles" -> "VK_GEOMETRY_TYPE_TRIANGLES_NV"
      [] type = "Aabbs" -> "VK_GEOMETRY_TYPE_AABBS_NV"
      [] OTHER -> "UNREACHABLE"

\* VulkanBuildAccelerationStructureFlags: each flag set maps to its NV bit
VulkanBuildAccelerationStructureFlags(buildFlags) ==
    {bit \in {"VK_BUILD_ACCELERATION_STRUCTURE_ALLOW_UPDATE_BIT_NV",
              "VK_BUILD_ACCELERATION_STRUCTURE_PREFER_FAST_BUILD_BIT_NV",
              "VK_BUILD_ACCELERATION_STRUCTURE_PREFER_FAST_TRACE_BIT_NV",
              "VK_BUILD_ACCELERATION_STRUCTURE_LOW_MEMORY_BIT_NV"} :
         \/ "AllowUpdate" \in buildFlags
              /\ bit = "VK_BUILD_ACCELERATION_STRUCTURE_ALLOW_UPDATE_BIT_NV"
         \/ "PreferFastBuild" \in buildFlags
              /\ bit = "VK_BUILD_ACCELERATION_STRUCTURE_PREFER_FAST_BUILD_BIT_NV"
         \/ "PreferFastTrace" \in buildFlags
              /\ bit = "VK_BUILD_ACCELERATION_STRUCTURE_PREFER_FAST_TRACE_BIT_NV"
         \/ "LowMemory" \in buildFlags
              /\ bit = "VK_BUILD_ACCELERATION_STRUCTURE_LOW_MEMORY_BIT_NV"}

\* ------------------------------------------------- Fill4x3TransformMatrix
\* The float array is a function on 0 .. 15.  Coordinates are integers and an
\* angle is given by its number of quarter turns (q stands for q * pi / 2),
\* for which sine and cosine are exactly -1, 0 or 1.

\* float transform[16] = {}
ZeroedArray == [i \in 0 .. 15 |-> 0]

\* Fill4x3TransformMatrix has not been called on the array
NoCall == [called |-> FALSE]

sinf(q) == CASE q % 4 = 0 -> 0 [] q % 4 = 1 -> 1 [] q % 4 = 2 -> 0 [] OTHER -> -1

cosf(q) == CASE q % 4 = 0 -> 1 [] q % 4 = 1 -> 0 [] q % 4 = 2 -> -1 [] OTHER -> 0

\* MakeIdentity leaving the array as the caller passed it
MakeIdentityWritesNothing(out) == out

\* make identity: only the diagonal is written
MakeIdentity(out) ==
    [out EXCEPT ![0] = 1, ![5] = 1, ![10] = 1, ![15] = 1]

\* apply translation
ApplyTranslation(out, translation) ==
    IF translation = nullptr
    THEN out
    ELSE LET x == translation.x
             y == translation.y
             z == translation.z
         IN  [out EXCEPT
                  ![12] = out[0] * x + out[4] * y + out[8] * z + out[12],
                  ![13] = out[1] * x + out[5] * y + out[9] * z + out[13],
                  ![14] = out[2] * x + out[6] * y + out[10] * z + out[14],
                  ![15] = out[3] * x + out[7] * y + out[11] * z + out[15]]

\* x rotation
RotateX(out, x) ==
    LET s == sinf(x)
        c == cosf(x)
        a10 == out[4]
        a11 == out[5]
        a12 == out[6]
        a13 == out[7]
        a20 == out[8]
        a21 == out[9]
        a22 == out[10]
        a23 == out[11]
    IN  [out EXCEPT ![4] = a10 * c + a20 * s,
                    ![5] = a11 * c + a21 * s,
                    ![6] = a12 * c + a22 * s,
                    ![7] = a13 * c + a23 * s,
                    ![8] = a20 * c - a10 * s,
                    ![9] = a21 * c - a11 * s,
                    ![10] = a22 * c - a12 * s,
                    ![11] = a23 * c - a13 * s]

\* y rotation
RotateY(out, y) ==
    LET s == sinf(y)
        c == cosf(y)
        a00 == out[0]
        a01 == out[1]
        a02 == out[2]
        a03 == out[3]
        a20 == out[8]
        a21 == out[9]
        a22 == out[10]
        a23 == out[11]
    IN  [out EXCEPT ![0] = a00 * c - a20 * s,
                    ![1] = a01 * c - a21 * s,
                    ![2] = a02 * c - a22 * s,
                    ![3] = a03 * c - a23 * s,
                    ![8] = a00 * s + a20 * c,
                    ![9] = a01 * s + a21 * c,
                    ![10] = a02 * s + a22 * c,
                    ![11] = a03 * s + a23 * c]

\* z rotation
RotateZ(out, z) ==
    LET s == sinf(z)
        c == cosf(z)
        a00 == out[0]
        a01 == out[1]
        a02 == out[2]
        a03 == out[3]
        a10 == out[4]
        a11 == out[5]
        a12 == out[6]
        a13 == out[7]
    IN  [out EXCEPT ![0] = a00 * c + a10 * s,
                    ![1] = a01 * c + a11 * s,
                    ![2] = a02 * c + a12 * s,
                    ![3] = a03 * c + a13 * s,
                    ![4] = a10 * c - a00 * s,
                    ![5] = a11 * c - a01 * s,
                    ![6] = a12 * c - a02 * s,
                    ![7] = a13 * c - a03 * s]

\* ApplyScale multiplying the translation entries as well
ApplyScaleScalesTranslation(out, scale) ==
    IF scale = nullptr
    THEN out
    ELSE [i \in 0 .. 15 |->
              IF i \in {12, 13, 14}
              THEN out[i] * (CASE i = 12 -> scale.x [] i = 13 -> scale.y
                               [] OTHER -> scale.z)
              ELSE IF i \in 0 .. 3 THEN out[i] * scale.x
              ELSE IF i \in 4 .. 7 THEN out[i] * scale.y
              ELSE IF i \in 8 .. 11 THEN out[i] * scale.z
              ELSE out[i]]

\* ApplyRotation with the y step taken before the x step
ApplyRotationYFirst(out, rotation) ==
    IF rotation = nullptr
    THEN out
    ELSE RotateZ(RotateX(RotateY(out, rotation.y), rotation.x), rotation.z)

\* apply rotation: the x step, then the y step, then the z step
ApplyRotation(out, rotation) ==
    IF rotation = nullptr
    THEN out
    ELSE RotateZ(RotateY(RotateX(out, rotation.x), rotation.y), rotation.z)

\* apply scale
ApplyScale(out, scale) ==
    IF scale = nullptr
    THEN out
    ELSE LET x == scale.x
             y == scale.y
             z == scale.z
         IN  [out EXCEPT ![0] = out[0] * x, ![1] = out[1] * x,
                         ![2] = out[2] * x, ![3] = out[3] * x,
                         ![4] = out[4] * y, ![5] = out[5] * y,
                         ![6] = out[6] * y, ![7] = out[7] * y,
                         ![8] = out[8] * z, ![9] = out[9] * z,
                         ![10] = out[10] * z, ![11] = out[11] * z]

\* turn into 4x3, reset last row
TurnInto4x3(out) ==
    [out EXCEPT ![3] = out[12], ![7] = out[13], ![11] = out[14],
                ![12] = 0, ![13] = 0, ![14] = 0, ![15] = 0]

\* Fill4x3TransformMatrix: the array after the call, from the array before it
Fill4x3TransformMatrix(out, translation, rotation, scale) ==
    TurnInto4x3(
        ApplyScale(
            ApplyRotation(
                ApplyTranslation(MakeIdentity(out), translation),
                rotation),
            scale))

\* memcpy(&instanceData.transform, transform, sizeof(instanceData.transform)):
\* the first twelve floats
InstanceTransform(transform) == [i \in 0 .. 11 |-> transform[i]]

\* ------------------------------------------------------ steps of Initialize
\* Each step is an operator from the object's members (and what the driver
\* answers) to [obj, made, err]: the members afterwards, the kinds of
\* resource the step created, and the error it returned ("none" = success);
\* bind tells whether the step issued vkBindAccelerationStructureMemoryNV
\* ("none": not issued, "failed", "bound"); log lists the driver and
\* allocator calls the step made, in order.

Ok(o, made) ==
    [obj |-> o, made |-> made, err |-> "none", bind |-> "none", log |-> <<>>]
Err(o, made, err) ==
    [obj |-> o, made |-> made, err |-> err, bind |-> "none", log |-> <<>>]

\* the step's result with the calls it made
Logged(r, log) == [r EXCEPT !.log = log]

\* validate ray tracing calls
CapabilityCheck(o, table) ==
    IF ~table.CreateAccelerationStructureNV
    THEN Err(o, {}, "UnsupportedFeature")
    ELSE Ok(o, {})

\* EncodeGeometry with the vertex buffer examined before the geometry type
EncodeGeometryVertexFirst(geomDsc) ==
    IF geomDsc.vertexBuffer = VK_NULL_HANDLE
    THEN [err |-> "InvalidVertexData"]
    ELSE IF geomDsc.type # "Triangles"
    THEN [err |-> "UnsupportedGeometryType"]
    ELSE IF geomDsc.indexBuffer # "nullptr" /\ geomDsc.indexBuffer = VK_NULL_HANDLE
    THEN [err |-> "InvalidIndexData"]
    ELSE [err |-> "none",
          geometryInfo |->
              [geometryType |-> VulkanGeometryType(geomDsc.type),
               vertexData |-> geomDsc.vertexBuffer,
               indexData |-> IF geomDsc.indexBuffer # "nullptr"
                             THEN geomDsc.indexBuffer
                             ELSE VK_NULL_HANDLE]]

\* one geometry of the Bottom loop: the error it raises or the record pushed
EncodeGeometry(geomDsc) ==
    IF geomDsc.type # "Triangles"
    THEN [err |-> "UnsupportedGeometryType"]
    ELSE IF geomDsc.vertexBuffer = VK_NULL_HANDLE
    THEN [err |-> "InvalidVertexData"]
    ELSE IF geomDsc.indexBuffer # "nullptr" /\ geomDsc.indexBuffer = VK_NULL_HANDLE
    THEN [err |-> "InvalidIndexData"]
    ELSE [err |-> "none",
          geometryInfo |->
              [geometryType |-> VulkanGeometryType(geomDsc.type),
               vertexData |-> geomDsc.vertexBuffer,
               indexData |-> IF geomDsc.indexBuffer # "nullptr"
                             THEN geomDsc.indexBuffer
                             ELSE VK_NULL_HANDLE]]

RECURSIVE GeometryLoop(_, _, _)
GeometryLoop(geometries, ii, mGeometries) ==
    IF ii > Len(geometries)
    THEN [err |-> "none", mGeometries |-> mGeometries]
    ELSE LET e == EncodeGeometry(geometries[ii])
         IN  IF e.err # "none"
             THEN [err |-> e.err, mGeometries |-> mGeometries]
             ELSE GeometryLoop(geometries, ii + 1,
                               Append(mGeometries, e.geometryInfo))

\* acceleration container holds geometry
EncodeGeometries(o, descriptor) ==
    IF descriptor.level = "Bottom"
    THEN LET r == GeometryLoop(descriptor.geometries, 1, o.mGeometries)
             o2 == [o EXCEPT !.mGeometries = r.mGeometries]
         IN  IF r.err # "none" THEN Err(o2, {}, r.err) ELSE Ok(o2, {})
    ELSE Ok(o, {})

\* CreateAccelerationStructure passing the descriptor's instance count for a
\* Bottom structure too
CreateAccelerationStructureCountsInstances(o, descriptor, driverOk) ==
    LET info ==
            [type |-> IF descriptor.level = "Top"
                      THEN "VK_ACCELERATION_STRUCTURE_TYPE_TOP_LEVEL_NV"
                      ELSE "VK_ACCELERATION_STRUCTURE_TYPE_BOTTOM_LEVEL_NV",
             flags |->
                 {"VK_BUILD_ACCELERATION_STRUCTURE_PREFER_FAST_TRACE_BIT_NV"},
             instanceCount |-> Len(descriptor.instances),
             geometryCount |-> IF descriptor.level = "Top"
                               THEN 0 ELSE Len(descriptor.geometries),
             pGeometries |-> IF descriptor.level = "Top"
                             THEN nullptr ELSE o.mGeometries]
        log == <<[call |-> "vkCreateAccelerationStructureNV", info |-> info,
                  ok |-> driverOk]>>
    IN  IF descriptor.level \notin {"Top", "Bottom"}
        THEN Err(o, {}, "InvalidLevel")
        ELSE IF ~driverOk
        THEN Logged(Err(o, {}, "vkCreateAccelerationStructureNV"), log)
        ELSE Logged(
                 Ok([o EXCEPT
                         !.mAccelerationStructure = "VkAccelerationStructureNV"],
                    {"accelerationStructure"}),
                 log)

\* CreateAccelerationStructure; driverOk: vkCreateAccelerationStructureNV
\* returned VK_SUCCESS
CreateAccelerationStructure(o, descriptor, driverOk) ==
    LET info ==
            IF descriptor.level = "Top"
            THEN [type |-> "VK_ACCELERATION_STRUCTURE_TYPE_TOP_LEVEL_NV",
                  flags |->
                      {"VK_BUILD_ACCELERATION_STRUCTURE_PREFER_FAST_TRACE_BIT_NV"},
                  instanceCount |-> Len(descriptor.instances),
                  geometryCount |-> 0,
                  pGeometries |-> nullptr]
            ELSE [type |-> "VK_ACCELERATION_STRUCTURE_TYPE_BOTTOM_LEVEL_NV",
                  flags |->
                      {"VK_BUILD_ACCELERATION_STRUCTURE_PREFER_FAST_TRACE_BIT_NV"},
                  instanceCount |-> 0,
                  geometryCount |-> Len(descriptor.geometries),
                  pGeometries |-> o.mGeometries]
        log == <<[call |-> "vkCreateAccelerationStructureNV", info |-> info,
                  ok |-> driverOk]>>
    IN  IF descriptor.level \notin {"Top", "Bottom"}
        THEN Err(o, {}, "InvalidLevel")
        ELSE IF ~driverOk
        THEN Logged(Err(o, {}, "vkCreateAccelerationStructureNV"), log)
        ELSE Logged(
                 Ok([o EXCEPT
                         !.mAccelerationStructure = "VkAccelerationStructureNV"],
                    {"accelerationStructure"}),
                 log)

\* one instance of the Top loop: the VkAccelerationInstance filled from the
\* descriptor and from the container it references
EncodeInstance(instance, geometryContainer) ==
    LET transform ==
            Fill4x3TransformMatrix(ZeroedArray, instance.transform.translation,
                                   instance.transform.rotation,
                                   instance.transform.scale)
    IN  [transform |-> InstanceTransform(transform),
         instanceId |-> instance.instanceId,
         mask |-> instance.mask,
         instanceOffset |-> instance.instanceOffset,
         flags |-> instance.flags,
         accelerationStructureHandle |-> geometryContainer.mHandle]

\* InstanceLoop with the record pushed before the handle is checked
RECURSIVE InstanceLoopPushFirst(_, _, _, _)
InstanceLoopPushFirst(instances, ii, mInstances, objs) ==
    IF ii > Len(instances)
    THEN [err |-> "none", mInstances |-> mInstances]
    ELSE LET geometryContainer == objs[instances[ii].geometryContainer]
             instanceData == EncodeInstance(instances[ii], geometryContainer)
         IN  IF geometryContainer.mHandle = 0
             THEN [err |-> "InvalidAccelerationHandle",
                   mInstances |-> Append(mInstances, instanceData)]
             ELSE InstanceLoopPushFirst(instances, ii + 1,
                                        Append(mInstances, instanceData), objs)

\* InstanceLoop with each record put in front of the ones before it
RECURSIVE InstanceLoopPrepends(_, _, _, _)
InstanceLoopPrepends(instances, ii, mInstances, objs) ==
    IF ii > Len(instances)
    THEN [err |-> "none", mInstances |-> mInstances]
    ELSE LET geometryContainer == objs[instances[ii].geometryContainer]
             instanceData == EncodeInstance(instances[ii], geometryContainer)
         IN  IF geometryContainer.mHandle = 0
             THEN [err |-> "InvalidAccelerationHandle",
                   mInstances |-> mInstances]
             ELSE InstanceLoopPrepends(instances, ii + 1,
                                       <<instanceData>> \o mInstances, objs)

\* the Top loop; objs gives the referenced containers' members
RECURSIVE InstanceLoop(_, _, _, _)
InstanceLoop(instances, ii, mInstances, objs) ==
    IF ii > Len(instances)
    THEN [err |-> "none", mInstances |-> mInstances]
    ELSE LET geometryContainer == objs[instances[ii].geometryContainer]
             instanceData == EncodeInstance(instances[ii], geometryContainer)
         IN  IF geometryContainer.mHandle = 0
             THEN [err |-> "InvalidAccelerationHandle",
                   mInstances |-> mInstances]
             ELSE InstanceLoop(instances, ii + 1,
                               Append(mInstances, instanceData), objs)

\* acceleration container holds instances
EncodeInstances(o, descriptor, objs) ==
    IF descriptor.level = "Top"
    THEN LET r == InstanceLoop(descriptor.instances, 1, o.mInstances, objs)
             o2 == [o EXCEPT !.mInstances = r.mInstances]
         IN  IF r.err # "none" THEN Err(o2, {}, r.err) ELSE Ok(o2, {})
    ELSE Ok(o, {})

\* container requires instance buffer; outcome: the first driver or
\* allocator call that fails, or "ok"
InstanceBufferOutcomes ==
    {"ok", "vkCreateBuffer", "AllocateMemory", "vkBindBufferMemory"}

CreateInstanceBuffer(o, descriptor, outcome) ==
    LET bufferSize == [hi |-> 0, lo |-> Len(descriptor.instances)]
        o1 == [o EXCEPT !.mInstanceBuffer = "VkBuffer"]
        o2 == [o1 EXCEPT !.mInstanceResource =
                   [kind |-> "instanceMemory", size |-> bufferSize,
                    memory |-> "VkDeviceMemory", mapped |-> <<>>]]
        \* memcpy of bufferSize bytes from mInstances.data()
        copied == SubSeq(o.mInstances, 1, Len(descriptor.instances))
        o3 == [o2 EXCEPT !.mInstanceResource.mapped = copied]
        l1 == <<[call |-> "vkCreateBuffer", size |-> bufferSize,
                 ok |-> outcome # "vkCreateBuffer"]>>
        l2 == l1 \o <<[call |-> "vkGetBufferMemoryRequirements"],
                       [call |-> "AllocateMemory", class |-> "instance",
                        size |-> bufferSize, ok |-> outcome # "AllocateMemory"]>>
        l3 == Append(l2, [call |-> "vkBindBufferMemory",
                          ok |-> outcome # "vkBindBufferMemory"])
        l4 == Append(l3, [call |-> "memcpy", bytes |-> copied])
    IN  IF descriptor.level # "Top"
        THEN Ok(o, {})
        ELSE IF outcome = "vkCreateBuffer"
        THEN Logged(Err(o, {}, "vkCreateBuffer"), l1)
        ELSE IF outcome = "AllocateMemory"
        THEN Logged(Err(o1, {"instanceBuffer"}, "AllocateMemory"), l2)
        ELSE IF outcome = "vkBindBufferMemory"
        THEN Logged(Err(o2, {"instanceBuffer", "instanceMemory"},
                        "vkBindBufferMemory"), l3)
        ELSE Logged(Ok(o3, {"instanceBuffer", "instanceMemory"}), l4)

\* CreateBufferFromResourceMemoryAllocation (UtilsVulkan): wraps the build
\* scratch allocation in a buffer; ok: the helper succeeded
CreateBufferFromResourceMemoryAllocation(ok) ==
    IF ok
    THEN [buffer |-> "VkBuffer", made |-> {"buildBuffer"}, err |-> "none"]
    ELSE [buffer |-> VK_NULL_HANDLE, made |-> {},
          err |-> "CreateBufferFromResourceMemoryAllocation"]

\* A 64-bit VkDeviceSize is held as its two 32-bit words, [hi, lo]
\* (value hi * 2^32 + lo).
\* uint32_t GetMemoryRequirementSize: the driver's VkDeviceSize, narrowed to
\* uint32_t: the low word
GetMemoryRequirementSize(reported) == reported.lo

\* a uint32_t assigned to a VkDeviceSize
DeviceSize(word) == [hi |-> 0, lo |-> word]

\* BindScratchResultMemory without the test of the memory handle
BindScratchResultMemoryUnchecked(memory, driverOk) ==
    IF ~driverOk
    THEN [err |-> "vkBindAccelerationStructureMemoryNV", bind |-> "failed"]
    ELSE [err |-> "none", bind |-> "bound"]

\* bind scratch result memory: the error returned and whether
\* vkBindAccelerationStructureMemoryNV was called; memory: what the object
\* allocation's heap holds; driverOk: the call returned VK_SUCCESS
BindScratchResultMemory(memory, driverOk) ==
    IF memory = VK_NULL_HANDLE
    THEN [err |-> "MemoryBindFailed", bind |-> "none"]
    ELSE IF ~driverOk
    THEN [err |-> "vkBindAccelerationStructureMemoryNV", bind |-> "failed"]
    ELSE [err |-> "none", bind |-> "bound"]

\* what can go wrong in ReserveScratchMemory, in the order of the calls;
\* "nullMemory": every call succeeds but the object allocation's heap holds
\* no VkDeviceMemory
ReserveOutcomes ==
    {"ok", "AllocateMemory(result)", "AllocateMemory(build)",
     "CreateBufferFromResourceMemoryAllocation", "AllocateMemory(update)",
     "nullMemory", "vkBindAccelerationStructureMemoryNV"}

\* ReserveScratchMemory; sizes: the three sizes the driver reports for the
\* structure; outcome: one of ReserveOutcomes
ReserveScratchMemory(o, sizes, outcome) ==
    LET resultSize == GetMemoryRequirementSize(sizes.object)
        buildSize == GetMemoryRequirementSize(sizes.build)
        updateSize == GetMemoryRequirementSize(sizes.update)
        s1 == [o.mScratchMemory EXCEPT !.result =
                   [kind |-> "resultMemory", size |-> DeviceSize(resultSize),
                    memory |-> IF outcome = "nullMemory"
                               THEN VK_NULL_HANDLE ELSE "VkDeviceMemory",
                    mapped |-> <<>>]]
        s2 == [s1 EXCEPT !.build =
                   [kind |-> "buildMemory", size |-> DeviceSize(buildSize),
                    memory |-> "VkDeviceMemory", mapped |-> <<>>]]
        b == CreateBufferFromResourceMemoryAllocation(
                 outcome # "CreateBufferFromResourceMemoryAllocation")
        s3 == [s2 EXCEPT !.buildBuffer = b.buffer]
        s4 == IF updateSize > 0
              THEN [s3 EXCEPT !.update =
                        [kind |-> "updateMemory", size |-> DeviceSize(updateSize),
                         memory |-> "VkDeviceMemory", mapped |-> <<>>]]
              ELSE s3
        m1 == {"resultMemory"}
        m2 == m1 \cup {"buildMemory"}
        m3 == m2 \cup b.made
        m4 == IF updateSize > 0 THEN m3 \cup {"updateMemory"} ELSE m3
        with(s) == [o EXCEPT !.mScratchMemory = s]
        \* GetMemoryRequirements(type): the driver's answer for one class
        query(class) ==
            [call |-> "vkGetAccelerationStructureMemoryRequirementsNV",
             class |-> class, size |-> sizes[class]]
        allocate(class, size, ok) ==
            [call |-> "AllocateMemory", class |-> class,
             size |-> DeviceSize(size), ok |-> ok,
             memory |-> IF class = "object" /\ outcome = "nullMemory"
                        THEN VK_NULL_HANDLE ELSE "VkDeviceMemory"]
        bound == BindScratchResultMemory(
                     s4.result.memory,
                     outcome # "vkBindAccelerationStructureMemoryNV")
        l0 == <<query("object"), query("build"), query("update")>>
        l1 == l0 \o <<query("object"),
                       allocate("object", resultSize,
                                outcome # "AllocateMemory(result)")>>
        l2 == l1 \o <<query("build"),
                       allocate("build", buildSize,
                                outcome # "AllocateMemory(build)")>>
        l3 == l2 \o <<[call |-> "CreateBufferFromResourceMemoryAllocation",
                        size |-> DeviceSize(buildSize),
                        ok |-> b.err = "none"],
                       query("update")>>
        l4 == IF updateSize > 0
              THEN Append(l3, allocate("update", updateSize,
                                       outcome # "AllocateMemory(update)"))
              ELSE l3
        l5 == Append(l4, [call |-> "vkBindAccelerationStructureMemoryNV",
                          memory |-> s4.result.memory,
                          ok |-> bound.err = "none"])
    IN  IF outcome = "AllocateMemory(result)"
        THEN Logged(Err(o, {}, "AllocateMemory"), l1)
        ELSE IF outcome = "AllocateMemory(build)"
        THEN Logged(Err(with(s1), m1, "AllocateMemory"), l2)
        ELSE IF b.err # "none"
        THEN Logged(Err(with(s2), m2, b.err),
                    SubSeq(l3, 1, Len(l3) - 1))
        ELSE IF updateSize > 0 /\ outcome = "AllocateMemory(update)"
        THEN Logged(Err(with(s3), m3, "AllocateMemory"), l4)
        ELSE IF bound.bind = "none"
        THEN Logged(Err(with(s4), m4, bound.err), l4)
        ELSE IF bound.err # "none"
        THEN [Logged(Err(with(s4), m4, bound.err), l5)
                  EXCEPT !.bind = bound.bind]
        ELSE [Logged(Ok(with(s4), m4), l5) EXCEPT !.bind = bound.bind]

\* FetchHandle writing through to mHandle even when the driver call fails
FetchHandleStoresOnFailure(o, driverOk, written) ==
    LET log == <<[call |-> "vkGetAccelerationStructureHandleNV",
                  ok |-> driverOk]>>
    IN  IF ~driverOk
        THEN Logged(Err([o EXCEPT !.mHandle = written], {},
                        "vkGetAccelerationStructureHandleNV"), log)
        ELSE Logged(Ok([o EXCEPT !.mHandle = written], {}), log)

\* take handle: FetchHandle into the local, then mHandle = handle;
\* driverOk: vkGetAccelerationStructureHandleNV returned VK_SUCCESS;
\* written: what the driver left in the local
FetchHandle(o, driverOk, written) ==
    LET log == <<[call |-> "vkGetAccelerationStructureHandleNV",
                  ok |-> driverOk]>>
    IN  IF ~driverOk
        THEN Logged(Err(o, {}, "vkGetAccelerationStructureHandleNV"), log)
        ELSE Logged(Ok([o EXCEPT !.mHandle = written], {}), log)

\* ~RayTracingAccelerationContainer: the members afterwards and the kinds of
\* resource it released
Destructor(o) ==
    [obj |-> [o EXCEPT !.mAccelerationStructure = VK_NULL_HANDLE,
                       !.mScratchMemory = EmptyScratchMemory],
     freed |-> IF o.mAccelerationStructure # VK_NULL_HANDLE
               THEN {"accelerationStructure"}
               ELSE {}]

\* ----------------------------------------------------------------- actions

\* StepAfter with the scratch reservation moved before the instance encoding
StepAfterScratchEarly(step, level) ==
    CASE step = "capture" -> "capability"
      [] step = "capability" ->
             IF level = "Bottom" THEN "geometry" ELSE "create"
      [] step = "geometry" -> "create"
      [] step = "create" -> "scratch"
      [] step = "scratch" -> IF level = "Top" THEN "instances" ELSE "handle"
      [] step = "instances" -> "instanceBuffer"
      [] step = "instanceBuffer" -> "handle"
      [] step = "handle" -> "returned"

\* StepAfter with the scratch reservation left out for Bottom containers
StepAfterSkipsScratch(step, level) ==
    CASE step = "capture" -> "capability"
      [] step = "capability" ->
             IF level = "Bottom" THEN "geometry" ELSE "create"
      [] step = "geometry" -> "create"
      [] step = "create" -> IF level = "Top" THEN "instances" ELSE "handle"
      [] step = "instances" -> "instanceBuffer"
      [] step = "instanceBuffer" -> "scratch"
      [] step = "scratch" -> "handle"
      [] step = "handle" -> "returned"

\* StepAfter with the instance buffer made after the scratch reservation
StepAfterBufferLast(step, level) ==
    CASE step = "capture" -> "capability"
      [] step = "capability" ->
             IF level = "Bottom" THEN "geometry" ELSE "create"
      [] step = "geometry" -> "create"
      [] step = "create" -> IF level = "Top" THEN "instances" ELSE "scratch"
      [] step = "instances" -> "scratch"
      [] step = "scratch" -> IF level = "Top" THEN "instanceBuffer" ELSE "handle"
      [] step = "instanceBuffer" -> "handle"
      [] step = "handle" -> "returned"

\* the steps with the instance loop run before the structure is created
StepAfterInstancesBeforeCreate(step, level) ==
    CASE step = "capture" -> "capability"
      [] step = "capability" ->
             IF level = "Bottom" THEN "geometry" ELSE "instances"
      [] step = "geometry" -> "create"
      [] step = "instances" -> "create"
      [] step = "create" ->
             IF level = "Top" THEN "instanceBuffer" ELSE "scratch"
      [] step = "instanceBuffer" -> "scratch"
      [] step = "scratch" -> "handle"
      [] step = "handle" -> "returned"

\* the order of the steps of Initialize: the step that follows `step` for a
\* descriptor of the given level ("returned": Initialize returns success)
StepAfter(step, level) ==
    CASE step = "capture" -> "capability"
      [] step = "capability" ->
             IF level = "Bottom" THEN "geometry" ELSE "create"
      [] step = "geometry" -> "create"
      [] step = "create" -> IF level = "Top" THEN "instances" ELSE "scratch"
      [] step = "instances" -> "instanceBuffer"
      [] step = "instanceBuffer" -> "scratch"
      [] step = "scratch" -> "handle"
      [] step = "handle" -> "returned"

Steps ==
    {"capture", "capability", "geometry", "create", "instances",
     "instanceBuffer", "scratch", "handle"}

InFlight == {c \in Containers : pc[c] \in Steps}

\* nothing runs once the process is gone; the calls are serialized
Quiet == ~aborted /\ \A c \in Containers : pc[c] \in {"idle", "returned"}

\* Discard with the object handed to the caller in spite of the error
DiscardHandsOut(c, step, r) ==
    /\ obj' = [obj EXCEPT ![c] = r.obj]
    /\ failStep' = [failStep EXCEPT ![c] = step]
    /\ live' = live \cup {<<c, k>> : k \in r.made}
    /\ released' = released
    /\ pc' = [pc EXCEPT ![c] = "returned"]
    /\ result' = [result EXCEPT ![c] = r.err]
    /\ desc' = desc

\* Create, when Initialize fails: DAWN_TRY returns the error and the
\* unique_ptr deletes the object; r: the failing step's result
Discard(c, step, r) ==
    LET d == Destructor(r.obj)
    IN  /\ obj' = [obj EXCEPT ![c] = d.obj]
        /\ failStep' = [failStep EXCEPT ![c] = step]
        /\ live' = (live \cup {<<c, k>> : k \in r.made})
                       \ {<<c, k>> : k \in d.freed}
        /\ released' = [released EXCEPT ![c] = d.freed]
        /\ pc' = [pc EXCEPT ![c] = "discarded"]
        /\ result' = [result EXCEPT ![c] = r.err]
        /\ desc' = desc

\* Create, when Initialize succeeds: return geometry.release()
Release(c, r) ==
    /\ obj' = [obj EXCEPT ![c] = r.obj]
    /\ live' = live \cup {<<c, k>> : k \in r.made}
    /\ released' = released
    /\ pc' = [pc EXCEPT ![c] = "returned"]
    /\ result' = [result EXCEPT ![c] = "ok"]
    /\ failStep' = failStep
    /\ desc' = desc

\* one step of Initialize has run with result r
Advance(c, step, r) ==
    /\ trace' = [trace EXCEPT ![c] = Append(@, step)]
    /\ created' = [created EXCEPT ![c] = @ \cup r.made]
    /\ bindCalls' = [bindCalls EXCEPT ![c] =
                         IF r.bind = "none" THEN @ ELSE Append(@, r.bind)]
    /\ calls' = [calls EXCEPT ![c] = @ \o r.log]
    /\ aborted' = aborted
    /\ UNCHANGED <<array, composed>>
    /\ fn' = fn
    /\ IF r.err # "none"
       THEN Discard(c, step, r)
       ELSE IF StepAfter(step, desc[c].level) = "returned"
       THEN Release(c, r)
       ELSE /\ obj' = [obj EXCEPT ![c] = r.obj]
            /\ live' = live \cup {<<c, k>> : k \in r.made}
            /\ pc' = [pc EXCEPT ![c] = StepAfter(step, desc[c].level)]
            /\ UNCHANGED <<released, result, failStep, desc>>

\* the process dies inside a step of object c, after the step made the
\* calls of log
Abort(c, step, log) ==
    /\ aborted' = TRUE
    /\ trace' = [trace EXCEPT ![c] = Append(@, step)]
    /\ calls' = [calls EXCEPT ![c] = @ \o log]
    /\ UNCHANGED <<fn, pc, desc, obj, live, result, failStep, created,
                   released, bindCalls, array, composed, refComplete>>

\* the containers a caller holds and can name in an instance descriptor
Returned == {c \in Containers : pc[c] = "returned"}

\* Create: make_unique, then Initialize starts; workload: the descriptors
\* callers pass
Create(c, workload) ==
    /\ Quiet
    /\ pc[c] = "idle"
    /\ \A k \in Containers : pc[k] = "idle" => c <= k
    /\ \E descriptor \in workload :
           /\ \A i \in DOMAIN descriptor.instances :
                  descriptor.instances[i].geometryContainer \in Returned
           /\ desc' = [desc EXCEPT ![c] = descriptor]
    /\ pc' = [pc EXCEPT ![c] = "capture"]
    /\ obj' = [obj EXCEPT ![c] = NewContainer]
    /\ UNCHANGED <<fn, live, aborted, result, failStep, trace, created,
                   released, bindCalls, calls, array, composed, refComplete>>

\* save container level and flags: VulkanAccelerationContainerLevel reaches
\* UNREACHABLE() for a level that is neither Bottom nor Top: the assertion
\* ends the process, or (assertions compiled out) any value is stored
CaptureLevel(c) ==
    /\ ~aborted
    /\ pc[c] = "capture"
    /\ LET native == VulkanAccelerationContainerLevel(desc[c].level)
           mFlags == VulkanBuildAccelerationStructureFlags(desc[c].flags)
           saved(level) ==
               Ok([obj[c] EXCEPT !.mLevel = level, !.mFlags = mFlags], {})
       IN  IF native # "UNREACHABLE"
           THEN /\ Advance(c, "capture", saved(native))
                /\ UNCHANGED refComplete
           ELSE \/ Abort(c, "capture", <<>>)
                \/ \E any \in NativeLevels :
                       /\ Advance(c, "capture", saved(any))
                       /\ UNCHANGED refComplete

CheckCapability(c) ==
    /\ ~aborted
    /\ pc[c] = "capability"
    /\ Advance(c, "capability", CapabilityCheck(obj[c], fn))
    /\ UNCHANGED refComplete

GeometryStep(c) ==
    /\ ~aborted
    /\ pc[c] = "geometry"
    /\ Advance(c, "geometry", EncodeGeometries(obj[c], desc[c]))
    /\ UNCHANGED refComplete

CreateStep(c) ==
    /\ ~aborted
    /\ pc[c] = "create"
    /\ \E driverOk \in BOOLEAN :
           Advance(c, "create",
                   CreateAccelerationStructure(obj[c], desc[c], driverOk))
    /\ UNCHANGED refComplete

\* a container has completed its own Initialize: Create returned it after
\* the structure was created, its memory bound and its handle fetched
Completed(k) ==
    /\ pc[k] = "returned"
    /\ \A s \in {"create", "scratch", "handle"} :
           \E i \in DOMAIN trace[k] : trace[k][i] = s
    /\ bindCalls[k] = <<"bound">>

InstanceStep(c) ==
    /\ ~aborted
    /\ pc[c] = "instances"
    /\ Advance(c, "instances", EncodeInstances(obj[c], desc[c], obj))
    /\ refComplete' =
           [refComplete EXCEPT ![c] =
                [i \in DOMAIN desc[c].instances |->
                     Completed(desc[c].instances[i].geometryContainer)]]

InstanceBufferStep(c) ==
    /\ ~aborted
    /\ pc[c] = "instanceBuffer"
    /\ \E outcome \in InstanceBufferOutcomes :
           Advance(c, "instanceBuffer",
                   CreateInstanceBuffer(obj[c], desc[c], outcome))
    /\ UNCHANGED refComplete

\* reserve scratch memory; the entry points it calls are not checked by
\* Initialize: calling one that is not loaded ends the process
ScratchStep(c, sizes) ==
    /\ ~aborted
    /\ pc[c] = "scratch"
    /\ IF ~fn.GetAccelerationStructureMemoryRequirementsNV
       THEN Abort(c, "scratch", <<>>)
       ELSE \E outcome \in ReserveOutcomes :
                LET r == ReserveScratchMemory(obj[c], sizes, outcome)
                IN  IF r.bind # "none" /\ ~fn.BindAccelerationStructureMemoryNV
                    THEN Abort(c, "scratch", SubSeq(r.log, 1, Len(r.log) - 1))
                    ELSE Advance(c, "scratch", r) /\ UNCHANGED refComplete

\* take handle
HandleStep(c) ==
    /\ ~aborted
    /\ pc[c] = "handle"
    /\ IF ~fn.GetAccelerationStructureHandleNV
       THEN Abort(c, "handle", <<>>)
       ELSE \E driverOk \in BOOLEAN, written \in DriverHandles(c) :
                /\ Advance(c, "handle", FetchHandle(obj[c], driverOk, written))
                /\ UNCHANGED refComplete

\* the owner drops a container it was handed: the destructor runs
Destroy(c) ==
    /\ Quiet
    /\ pc[c] = "returned"
    /\ LET d == Destructor(obj[c])
       IN  /\ obj' = [obj EXCEPT ![c] = d.obj]
           /\ live' = live \ {<<c, k>> : k \in d.freed}
           /\ released' = [released EXCEPT ![c] = d.freed]
    /\ pc' = [pc EXCEPT ![c] = "destroyed"]
    /\ UNCHANGED <<fn, desc, aborted, result, failStep, trace, created,
                   bindCalls, calls, array, composed, refComplete>>

\* the storage of a deleted object is reused; what it leaked is lost track of
Forget(c) ==
    /\ ~aborted
    /\ pc[c] \in {"discarded", "destroyed"}
    /\ pc' = [pc EXCEPT ![c] = "idle"]
    /\ obj' = [obj EXCEPT ![c] = NewContainer]
    /\ live' = {x \in live : x[1] # c}
    /\ result' = [result EXCEPT ![c] = "none"]
    /\ failStep' = [failStep EXCEPT ![c] = "none"]
    /\ trace' = [trace EXCEPT ![c] = <<>>]
    /\ created' = [created EXCEPT ![c] = {}]
    /\ released' = [released EXCEPT ![c] = {}]
    /\ bindCalls' = [bindCalls EXCEPT ![c] = <<>>]
    /\ calls' = [calls EXCEPT ![c] = <<>>]
    /\ refComplete' = [refComplete EXCEPT ![c] = <<>>]
    /\ desc' = [desc EXCEPT ![c] = NoDescriptor]
    /\ UNCHANGED <<fn, aborted, array, composed>>

\* ------------------------------------------------------------ the program

\* the function tables a device can have: each entry point loaded or not
DeviceTables ==
    [CreateAccelerationStructureNV : BOOLEAN,
     GetAccelerationStructureMemoryRequirementsNV : BOOLEAN,
     BindAccelerationStructureMemoryNV : BOOLEAN,
     GetAccelerationStructureHandleNV : BOOLEAN]

\* a triangle geometry with a backed vertex buffer and no index buffer
PlainTriangles ==
    [type |-> "Triangles", vertexBuffer |-> "VkBuffer",
     indexBuffer |-> "nullptr"]

\* a geometry the encoder rejects
Boxes ==
    [type |-> "Aabbs", vertexBuffer |-> "VkBuffer", indexBuffer |-> "nullptr"]

\* the descriptors callers pass
Descriptors ==
    [level : {"Bottom"},
     flags : {{"PreferFastTrace"}},
     geometries : {<<>>, <<PlainTriangles>>, <<Boxes>>},
     instances : {<<>>}]
    \cup
    [level : {"Top"},
     flags : {{"AllowUpdate", "PreferFastBuild"}},
     geometries : {<<>>},
     instances : SeqsUpTo(InstanceDescriptors, MaxInstances)]
    \cup
    [level : {"Other"}, flags : {{}}, geometries : {<<>>}, instances : {<<>>}]

\* callers hold one top-level container at a time
DescriptorsNow ==
    IF \E k \in Returned : desc[k].level = "Top"
    THEN {descriptor \in Descriptors : descriptor.level # "Top"}
    ELSE Descriptors

\* the sizes the driver reports for object, build scratch and update scratch
SizeReports ==
    [object : {[hi |-> 0, lo |-> 16]},
     build : {[hi |-> 0, lo |-> 16]},
     update : {[hi |-> 0, lo |-> 16]}]

Init ==
    /\ fn \in DeviceTables
    /\ pc = [c \in Containers |-> "idle"]
    /\ desc = [c \in Containers |-> NoDescriptor]
    /\ obj = [c \in Containers |-> NewContainer]
    /\ live = {}
    /\ aborted = FALSE
    /\ result = [c \in Containers |-> "none"]
    /\ failStep = [c \in Containers |-> "none"]
    /\ trace = [c \in Containers |-> <<>>]
    /\ created = [c \in Containers |-> {}]
    /\ released = [c \in Containers |-> {}]
    /\ bindCalls = [c \in Containers |-> <<>>]
    /\ calls = [c \in Containers |-> <<>>]
    /\ array = ZeroedArray
    /\ composed = NoCall
    /\ refComplete = [c \in Containers |-> <<>>]

Next ==
    \/ \E c \in Containers : Create(c, DescriptorsNow)
    \/ \E c \in Containers : CaptureLevel(c)
    \/ \E c \in Containers : CheckCapability(c)
    \/ \E c \in Containers : GeometryStep(c)
    \/ \E c \in Containers : CreateStep(c)
    \/ \E c \in Containers : InstanceStep(c)
    \/ \E c \in Containers : InstanceBufferStep(c)
    \/ \E c \in Containers, sizes \in SizeReports : ScratchStep(c, sizes)
    \/ \E c \in Containers : HandleStep(c)
    \/ \E c \in Containers : Destroy(c)
    \/ \E c \in Containers : Forget(c)

Spec == Init /\ [][Next]_vars

\* Geometry validation on its own: one container at a time, Bottom
\* descriptors with every geometry list up to MaxGeometries (and the other
\* levels with every set of build flags)
GeometryWorkload ==
    [level : {"Bottom"},
     flags : {{}},
     geometries : SeqsUpTo(GeometryDescriptors, MaxGeometries),
     instances : {<<>>}]
    \cup
    [level : {"Top", "Other"},
     flags : SUBSET ContainerFlags,
     geometries : {<<>>},
     instances : {<<>>}]

NextGeometry ==
    \/ \E c \in Containers : Returned = {} /\ Create(c, GeometryWorkload)
    \/ \E c \in Containers : CaptureLevel(c)
    \/ \E c \in Containers : CheckCapability(c)
    \/ \E c \in Containers : GeometryStep(c)
    \/ \E c \in Containers : CreateStep(c)
    \/ \E c \in Containers : InstanceStep(c)
    \/ \E c \in Containers : InstanceBufferStep(c)
    \/ \E c \in Containers, sizes \in SizeReports : ScratchStep(c, sizes)
    \/ \E c \in Containers : HandleStep(c)
    \/ \E c \in Containers : Destroy(c)
    \/ \E c \in Containers : Forget(c)

SpecGeometry == Init /\ [][NextGeometry]_vars

\* Descriptors that carry both lists whatever their level; callers hold at
\* most two containers at a time
MixedWorkload ==
    [level : {"Bottom", "Top"},
     flags : {{}},
     geometries : SeqsUpTo({PlainTriangles, Boxes}, MaxGeometries),
     instances : SeqsUpTo(InstanceDescriptors, MaxInstances)]

NextMixed ==
    \/ \E c \in Containers :
           Cardinality(Returned) <= 1 /\ Create(c, MixedWorkload)
    \/ \E c \in Containers : CaptureLevel(c)
    \/ \E c \in Containers : CheckCapability(c)
    \/ \E c \in Containers : GeometryStep(c)
    \/ \E c \in Containers : CreateStep(c)
    \/ \E c \in Containers : InstanceStep(c)
    \/ \E c \in Containers : InstanceBufferStep(c)
    \/ \E c \in Containers, sizes \in SizeReports : ScratchStep(c, sizes)
    \/ \E c \in Containers : HandleStep(c)
    \/ \E c \in Containers : Destroy(c)
    \/ \E c \in Containers : Forget(c)

SpecMixed == Init /\ [][NextMixed]_vars

\* Scratch sizing on its own: one container at a time, with no geometry and
\* no instance, and every combination of the sizes below reported by the
\* driver; a size is hi * 2^32 + lo
SizeWords == {0, 16}
HighWords == {0, 1}

DeviceSizes == [hi : HighWords, lo : SizeWords]

SizesReported ==
    [object : DeviceSizes \ {[hi |-> 0, lo |-> 0]},
     build : DeviceSizes \ {[hi |-> 0, lo |-> 0]},
     update : DeviceSizes]

SizesWorkload ==
    [level : {"Bottom", "Top"},
     flags : {{}},
     geometries : {<<>>},
     instances : {<<>>}]

NextSizes ==
    \/ \E c \in Containers : Returned = {} /\ Create(c, SizesWorkload)
    \/ \E c \in Containers : CaptureLevel(c)
    \/ \E c \in Containers : CheckCapability(c)
    \/ \E c \in Containers : GeometryStep(c)
    \/ \E c \in Containers : CreateStep(c)
    \/ \E c \in Containers : InstanceStep(c)
    \/ \E c \in Containers : InstanceBufferStep(c)
    \/ \E c \in Containers, sizes \in SizesReported : ScratchStep(c, sizes)
    \/ \E c \in Containers : HandleStep(c)
    \/ \E c \in Containers : Destroy(c)
    \/ \E c \in Containers : Forget(c)

SpecSizes == Init /\ [][NextSizes]_vars

\* Instance encoding on its own: callers create a Bottom container and then
\* a Top container over it; instance descriptors differ in every field that
\* is copied into the record
InstanceWorkload ==
    [transform : {NoTransform},
     instanceId : {1, 2},
     mask : {255, 15},
     instanceOffset : {0, 3},
     flags : {0, 5},
     geometryContainer : Containers]

BottomWorkload ==
    [level : {"Bottom"}, flags : {{}}, geometries : {<<>>}, instances : {<<>>}]

InstancesWorkload ==
    [level : {"Top"},
     flags : {{}},
     geometries : {<<>>},
     instances : SeqsUpTo(InstanceWorkload, MaxInstances)]

\* the caller holds one container, a Bottom one
HoldsOneBottom == \E k \in Containers : Returned = {k} /\ desc[k].level = "Bottom"

NextInstances ==
    \/ \E c \in Containers : Returned = {} /\ Create(c, BottomWorkload)
    \/ \E c \in Containers : HoldsOneBottom /\ Create(c, InstancesWorkload)
    \/ \E c \in Containers : CaptureLevel(c)
    \/ \E c \in Containers : CheckCapability(c)
    \/ \E c \in Containers : GeometryStep(c)
    \/ \E c \in Containers : CreateStep(c)
    \/ \E c \in Containers : InstanceStep(c)
    \/ \E c \in Containers : InstanceBufferStep(c)
    \/ \E c \in Containers, sizes \in SizeReports : ScratchStep(c, sizes)
    \/ \E c \in Containers : HandleStep(c)
    \/ \E c \in Containers : Destroy(c)
    \/ \E c \in Containers : Forget(c)

SpecInstances == Init /\ [][NextInstances]_vars

\* Transform composition on its own: a Bottom container, then Top containers
\* with one instance over it, for every transform below
QuarterTurns == 0 .. 3

Translations ==
    {Transform3D(x, y, z) : x \in {0, 5}, y \in {0, -2}, z \in {0, 3}}

Rotations ==
    {Transform3D(x, y, z) : x \in QuarterTurns, y \in QuarterTurns,
                            z \in QuarterTurns}

Scales == {Transform3D(x, y, z) : x \in {1, 2}, y \in {1, 2}, z \in {1, 2}}

Transforms ==
    [translation : {nullptr} \cup Translations,
     rotation : {nullptr} \cup Rotations,
     scale : {nullptr} \cup Scales]

TransformWorkload ==
    [level : {"Top"},
     flags : {{}},
     geometries : {<<>>},
     instances :
         {<<instance>> :
              instance \in [transform : Transforms,
                            instanceId : {0},
                            mask : {255},
                            instanceOffset : {0},
                            flags : {0},
                            geometryContainer : Containers]}]

NextTransform ==
    \/ \E c \in Containers : Returned = {} /\ Create(c, BottomWorkload)
    \/ \E c \in Containers : HoldsOneBottom /\ Create(c, TransformWorkload)
    \/ \E c \in Containers : CaptureLevel(c)
    \/ \E c \in Containers : CheckCapability(c)
    \/ \E c \in Containers : GeometryStep(c)
    \/ \E c \in Containers : CreateStep(c)
    \/ \E c \in Containers : InstanceStep(c)
    \/ \E c \in Containers : InstanceBufferStep(c)
    \/ \E c \in Containers, sizes \in SizeReports : ScratchStep(c, sizes)
    \/ \E c \in Containers : HandleStep(c)
    \/ \E c \in Containers : Destroy(c)
    \/ \E c \in Containers : Forget(c)

SpecTransform == Init /\ [][NextTransform]_vars

\* Fill4x3TransformMatrix on its own: a caller that holds a float[16] with
\* some content, has one transform composed into it, and takes another array
PriorArrays ==
    {ZeroedArray} \cup {[ZeroedArray EXCEPT ![i] = 1] : i \in 0 .. 15}

lifecycle ==
    <<fn, pc, desc, obj, live, aborted, result, failStep, trace, created,
      released, bindCalls, calls, refComplete>>

Compose(transform) ==
    /\ composed = NoCall
    /\ array' = Fill4x3TransformMatrix(array, transform.translation,
                                       transform.rotation, transform.scale)
    /\ composed' = transform
    /\ UNCHANGED lifecycle

TakeArray(prior) ==
    /\ composed # NoCall
    /\ array' = prior
    /\ composed' = NoCall
    /\ UNCHANGED lifecycle

InitFill ==
    /\ fn = [e \in DOMAIN CHOOSE table \in DeviceTables : TRUE |-> TRUE]
    /\ pc = [c \in Containers |-> "idle"]
    /\ desc = [c \in Containers |-> NoDescriptor]
    /\ obj = [c \in Containers |-> NewContainer]
    /\ live = {}
    /\ aborted = FALSE
    /\ result = [c \in Containers |-> "none"]
    /\ failStep = [c \in Containers |-> "none"]
    /\ trace = [c \in Containers |-> <<>>]
    /\ created = [c \in Containers |-> {}]
    /\ released = [c \in Containers |-> {}]
    /\ bindCalls = [c \in Containers |-> <<>>]
    /\ calls = [c \in Containers |-> <<>>]
    /\ array \in PriorArrays
    /\ composed = NoCall
    /\ refComplete = [c \in Containers |-> <<>>]

NextFill ==
    \/ \E transform \in Transforms : Compose(transform)
    \/ \E prior \in PriorArrays : TakeArray(prior)

SpecFill == InitFill /\ [][NextFill]_vars

\* ------------------------------------------------------------------ claims

\* the steps of a complete Initialize, by the level of the descriptor
ExpectedSteps(level) ==
    CASE level = "Bottom" ->
             <<"capture", "capability", "geometry", "create", "scratch",
               "handle">>
      [] level = "Top" ->
             <<"capture", "capability", "create", "instances",
               "instanceBuffer", "scratch", "handle">>
      [] level = "Other" -> <<"capture", "capability", "create">>
      [] OTHER -> <<>>

IsPrefix(s, t) == Len(s) <= Len(t) /\ \A i \in 1 .. Len(s) : s[i] = t[i]

Failed(c) == result[c] \notin {"none", "ok"}

\* C1: Create hands a container to the caller exactly when Initialize
\* returned success, and then every step of Initialize has run; when
\* Initialize returned an error the object is deleted and never handed out.
C1_AllOrNothing ==
    \A c \in Containers :
        /\ pc[c] = "returned" =>
               /\ result[c] = "ok"
               /\ failStep[c] = "none"
               /\ trace[c] = ExpectedSteps(desc[c].level)
        /\ Failed(c) => pc[c] = "discarded"
        /\ failStep[c] # "none" => Failed(c)

C1_Witness ==
    \E c, k \in Containers :
        /\ pc[c] = "returned"
        /\ pc[k] = "discarded" /\ created[k] # {} /\ Failed(k)

\* C2: the steps of Initialize run in the fixed order capture, capability,
\* geometry (Bottom), create, instances then instance buffer (Top),
\* scratch, handle; the run stops at the first step that fails.
C2_StepOrder ==
    \A c \in Containers :
        /\ IsPrefix(trace[c], ExpectedSteps(desc[c].level))
        /\ Failed(c) =>
               /\ trace[c] # <<>>
               /\ trace[c][Len(trace[c])] = failStep[c]
               /\ pc[c] = "discarded"

C2_Witness ==
    \E c \in Containers :
        /\ desc[c].level = "Top"
        /\ failStep[c] = "scratch"
        /\ Len(trace[c]) = 6

\* C3: a container's opaque handle is nonzero only if its structure was
\* created, its object memory was bound and the handle fetch succeeded; it
\* is zero after every failed Initialize, a failed handle fetch included.
C3_HandleZeroUntilFetched ==
    \A c \in Containers :
        obj[c].mHandle # 0 =>
            /\ "accelerationStructure" \in created[c]
            /\ bindCalls[c] = <<"bound">>
            /\ result[c] = "ok"

C3_Witness ==
    \E c \in Containers :
        /\ failStep[c] = "handle"
        /\ bindCalls[c] = <<"bound">>
        /\ obj[c].mHandle = 0

\* C4: whenever Initialize has succeeded the native structure handle is
\* non-null and the opaque handle is nonzero.
C4_SuccessGivesHandles ==
    \A c \in Containers :
        pc[c] = "returned" =>
            /\ obj[c].mAccelerationStructure # VK_NULL_HANDLE
            /\ obj[c].mHandle # 0

ZeroHandleInstances(c) ==
    {i \in DOMAIN desc[c].instances :
         obj[desc[c].instances[i].geometryContainer].mHandle = 0}

FirstOf(S) == CHOOSE i \in S : \A j \in S : i <= j

BadGeometry(g) ==
    \/ g.type # "Triangles"
    \/ g.vertexBuffer = VK_NULL_HANDLE
    \/ g.indexBuffer = VK_NULL_HANDLE

ExpectedGeometryError(g) ==
    IF g.type # "Triangles" THEN "UnsupportedGeometryType"
    ELSE IF g.vertexBuffer = VK_NULL_HANDLE THEN "InvalidVertexData"
    ELSE "InvalidIndexData"

BadGeometries(c) ==
    {i \in DOMAIN desc[c].geometries : BadGeometry(desc[c].geometries[i])}

\* C7: a Bottom descriptor with a geometry that is not Triangles, has an
\* unbacked vertex buffer or has an unbacked index buffer does not get past
\* geometry encoding: Initialize fails there with the error of the first
\* failing check of the first such geometry, in descriptor order.
C7_GeometryValidation ==
    \A c \in Containers :
        desc[c].level = "Bottom" =>
            /\ pc[c] \in {"create", "scratch", "handle", "returned",
                          "destroyed"} =>
                   BadGeometries(c) = {}
            /\ failStep[c] = "geometry" =>
                   /\ BadGeometries(c) # {}
                   /\ result[c] = ExpectedGeometryError(
                          desc[c].geometries[FirstOf(BadGeometries(c))])
                   /\ Len(obj[c].mGeometries) = FirstOf(BadGeometries(c)) - 1
            /\ failStep[c] \notin {"none", "capability", "geometry"} =>
                   BadGeometries(c) = {}

C7_Witness ==
    \E c \in Containers :
        /\ failStep[c] = "geometry"
        /\ result[c] = "InvalidIndexData"
        /\ Len(obj[c].mGeometries) = 1
        /\ desc[c].geometries[1].indexBuffer = "VkBuffer"

\* C8: on a device with ray tracing, Initialize of a descriptor whose level
\* is neither Top nor Bottom returns InvalidLevel, having created nothing.
C8_InvalidLevelReturned ==
    \A c \in Containers :
        (desc[c].level = "Other" /\ fn.CreateAccelerationStructureNV) =>
            /\ ~aborted
            /\ result[c] # "none" =>
                   result[c] = "InvalidLevel" /\ created[c] = {}

\* C9: once a successfully initialized container has been destroyed, none
\* of the resources it created is still live.
C9_DestroyReleasesAll ==
    \A c \in Containers :
        pc[c] = "destroyed" =>
            \A k \in ResourceKinds : <<c, k>> \notin live

\* C10: when Initialize fails, the teardown releases exactly the resources
\* created before the failing step.
C10_DiscardReleasesCreated ==
    \A c \in Containers :
        pc[c] = "discarded" => released[c] = created[c]

\* the calls of the given name that Initialize made for container c
CallsOf(c, name) == {i \in DOMAIN calls[c] : calls[c][i].call = name}

\* C11: a Bottom container never has instance records and a Top container
\* never has geometry records, whatever lists the descriptor carries; the
\* structure is created with instance count 0 for Bottom and with geometry
\* count 0 and no geometry list for Top.
C11_LevelSeparation ==
    \A c \in Containers :
        /\ obj[c].mLevel = "VK_ACCELERATION_STRUCTURE_TYPE_BOTTOM_LEVEL_NV" =>
               /\ obj[c].mInstances = <<>>
               /\ \A i \in CallsOf(c, "vkCreateAccelerationStructureNV") :
                      calls[c][i].info.instanceCount = 0
        /\ obj[c].mLevel = "VK_ACCELERATION_STRUCTURE_TYPE_TOP_LEVEL_NV" =>
               /\ obj[c].mGeometries = <<>>
               /\ \A i \in CallsOf(c, "vkCreateAccelerationStructureNV") :
                      /\ calls[c][i].info.geometryCount = 0
                      /\ calls[c][i].info.pGeometries = nullptr

C11_Witness ==
    \E c, k \in Containers :
        /\ pc[c] = "returned" /\ pc[k] = "returned"
        /\ desc[c].level = "Top" /\ Len(desc[c].geometries) = MaxGeometries
        /\ desc[k].level = "Bottom" /\ Len(desc[k].instances) = MaxInstances
        /\ desc[k].geometries # <<>>

\* the ray-tracing entry points Initialize uses
RayTracingEntryPoints ==
    {"CreateAccelerationStructureNV",
     "GetAccelerationStructureMemoryRequirementsNV",
     "BindAccelerationStructureMemoryNV", "GetAccelerationStructureHandleNV"}

\* C12: on a device where a ray-tracing entry point (creation, requirement
\* query, bind, handle fetch) is unavailable, Initialize returns
\* UnsupportedFeature from the capability check, having made no driver call
\* and encoded no geometry or instance.
C12_UnsupportedWithoutEntryPoints ==
    (\E e \in RayTracingEntryPoints : ~fn[e]) =>
        \A c \in Containers :
            desc[c].level \in {"Bottom", "Top"} =>
                /\ pc[c] \in {"capture", "capability", "discarded"}
                /\ result[c] # "none" =>
                       /\ result[c] = "UnsupportedFeature"
                       /\ failStep[c] = "capability"
                       /\ calls[c] = <<>>
                       /\ obj[c].mGeometries = <<>>
                       /\ obj[c].mInstances = <<>>

\* the sizes the driver reported to Initialize for one requirement class
Reported(c, class) ==
    {calls[c][i].size :
         i \in {j \in CallsOf(c, "vkGetAccelerationStructureMemoryRequirementsNV") :
                    calls[c][j].class = class}}

\* C13: after a successful Initialize the scratch memory has an update
\* allocation exactly when the update-scratch size the driver reported is
\* not zero.
C13_UpdateRegionIffNonzero ==
    \A c \in Containers :
        pc[c] = "returned" =>
            \A size \in Reported(c, "update") :
                (obj[c].mScratchMemory.update # NoAllocation)
                    <=> (size # [hi |-> 0, lo |-> 0])

\* C14: for each requirement class, every allocation Initialize requests has
\* exactly the 64-bit size the driver reported for that class.
C14_AllocationSizeAsReported ==
    \A c \in Containers :
        \A i \in CallsOf(c, "AllocateMemory") :
            calls[c][i].class \in {"object", "build", "update"} =>
                Reported(c, calls[c][i].class) = {calls[c][i].size}

\* C15: after a successful Initialize of a Top descriptor with n instances,
\* mInstances has n records, the i-th built from the i-th descriptor (its
\* id, mask, instance offset, flags, and the nonzero opaque handle of the
\* container it references), and what was copied into the instance buffer
\* is that sequence of n records in the same order.
C15_InstanceRecordsInOrder ==
    \A c \in Containers :
        (pc[c] = "returned" /\ desc[c].level = "Top") =>
            /\ Len(obj[c].mInstances) = Len(desc[c].instances)
            /\ \A i \in DOMAIN desc[c].instances :
                   LET instance == desc[c].instances[i]
                       record == obj[c].mInstances[i]
                   IN  /\ record.instanceId = instance.instanceId
                       /\ record.mask = instance.mask
                       /\ record.instanceOffset = instance.instanceOffset
                       /\ record.flags = instance.flags
                       /\ record.accelerationStructureHandle \in
                              DriverHandles(instance.geometryContainer) \ {0}
            /\ obj[c].mInstanceResource.mapped = obj[c].mInstances
            /\ \A i \in CallsOf(c, "memcpy") :
                   calls[c][i].bytes = obj[c].mInstances
            /\ Cardinality(CallsOf(c, "memcpy")) = 1

C15_Witness ==
    \E c \in Containers :
        /\ pc[c] = "returned"
        /\ desc[c].level = "Top"
        /\ Len(desc[c].instances) = MaxInstances
        /\ desc[c].instances[1] # desc[c].instances[2]
        /\ obj[c].mInstanceResource.mapped # <<>>

\* the instance records that exist, each with the transform it was built
\* from: <<container, index>>
Records ==
    {x \in Containers \X (1 .. MaxInstances) :
         x[2] \in DOMAIN obj[x[1]].mInstances}

TransformOf(x) == desc[x[1]].instances[x[2]].transform

MatrixOf(x) == obj[x[1]].mInstances[x[2]].transform

\* C16: the fourth column of the 4x3 matrix (entries 3, 7, 11) is the
\* translation, whatever the rotation (quarter-turn multiples) and scale.
C16_TranslationColumn ==
    \A x \in Records :
        TransformOf(x).translation # nullptr =>
            /\ MatrixOf(x)[3] = TransformOf(x).translation.x
            /\ MatrixOf(x)[7] = TransformOf(x).translation.y
            /\ MatrixOf(x)[11] = TransformOf(x).translation.z

C16_Witness ==
    \E x \in Records :
        /\ TransformOf(x).translation = Transform3D(5, 0, 0)
        /\ TransformOf(x).scale = Transform3D(2, 2, 2)
        /\ TransformOf(x).rotation = Transform3D(1, 2, 3)
        /\ MatrixOf(x)[3] = 5

\* a transform with each absent part replaced by its identity value
WithIdentityValues(t) ==
    [translation |-> IF t.translation = nullptr
                     THEN Transform3D(0, 0, 0) ELSE t.translation,
     rotation |-> IF t.rotation = nullptr
                  THEN Transform3D(0, 0, 0) ELSE t.rotation,
     scale |-> IF t.scale = nullptr THEN Transform3D(1, 1, 1) ELSE t.scale]

\* the transforms that agree with t on the parts t has
Completions(t) ==
    [translation : {t.translation, WithIdentityValues(t).translation},
     rotation : {t.rotation, WithIdentityValues(t).rotation},
     scale : {t.scale, WithIdentityValues(t).scale}]

\* rows (1,0,0,0), (0,1,0,0), (0,0,1,0)
Identity4x3 == [i \in 0 .. 11 |-> IF i \in {0, 5, 10} THEN 1 ELSE 0]

\* C17: an absent translation, rotation or scale gives the same matrix as
\* (0,0,0), (0,0,0) or (1,1,1) in its place, and with all three absent the
\* matrix is the identity 4x3 matrix.
C17_AbsentIsIdentityValue ==
    \A x \in Records :
        /\ \A u \in Completions(TransformOf(x)) :
               MatrixOf(x) =
                   InstanceTransform(
                       Fill4x3TransformMatrix(ZeroedArray, u.translation,
                                              u.rotation, u.scale))
        /\ TransformOf(x) = NoTransform => MatrixOf(x) = Identity4x3

C17_Witness ==
    \E x \in Records :
        /\ TransformOf(x) = NoTransform
        /\ MatrixOf(x) = Identity4x3
        /\ Cardinality(Completions(TransformOf(x))) = 8

\* the matrix Fill4x3TransformMatrix would give for t with the y rotation
\* step taken before the x step
YBeforeX(t) ==
    InstanceTransform(
        TurnInto4x3(
            ApplyScale(
                RotateZ(RotateX(RotateY(
                    ApplyTranslation(MakeIdentity(ZeroedArray), t.translation),
                    t.rotation.y), t.rotation.x), t.rotation.z),
                t.scale)))

\* C18: rotation is the x step, then the y step, then the z step.  With
\* rotation (quarter turn, 0, 0) and nothing else, the matrix maps (0,1,0)
\* to (0,0,1) or (0,0,-1) and leaves the X basis column (1,0,0); with
\* rotation (a, b, 0) for quarter turns a and b (either direction) the
\* matrix differs from the one obtained with the y step before the x step.
C18_RotationOrder ==
    \A x \in Records :
        LET t == TransformOf(x)
            m == MatrixOf(x)
        IN  /\ (/\ t.translation = nullptr /\ t.scale = nullptr
                /\ t.rotation \in {Transform3D(1, 0, 0), Transform3D(3, 0, 0)})
                   => /\ <<m[1], m[5], m[9]>> \in {<<0, 0, 1>>, <<0, 0, -1>>}
                      /\ <<m[0], m[4], m[8]>> = <<1, 0, 0>>
                      /\ <<m[0], m[1], m[2]>> = <<1, 0, 0>>
            /\ (/\ t.rotation # nullptr
                /\ t.rotation.x \in {1, 3}
                /\ t.rotation.y \in {1, 3}
                /\ t.rotation.z = 0)
                   => m # YBeforeX(t)

C18_Witness ==
    \E x \in Records :
        /\ TransformOf(x).rotation = Transform3D(1, 1, 0)
        /\ TransformOf(x).translation = nullptr
        /\ TransformOf(x).scale = nullptr
        /\ MatrixOf(x) # YBeforeX(TransformOf(x))

BindCallsOf(c) == CallsOf(c, "vkBindAccelerationStructureMemoryNV")

\* C19: Initialize issues the structure's memory bind call at most once,
\* exactly once when it succeeds, and only after the structure was created
\* and, for a Top container, after the instance buffer was created, bound
\* to its memory and filled with the instance records.
C19_BindOnceAfterCreation ==
    \A c \in Containers :
        /\ Cardinality(BindCallsOf(c)) <= 1
        /\ Len(bindCalls[c]) = Cardinality(BindCallsOf(c))
        /\ pc[c] = "returned" =>
               \E i \in BindCallsOf(c) : calls[c][i].ok
        /\ \A i \in BindCallsOf(c) :
               /\ \E j \in CallsOf(c, "vkCreateAccelerationStructureNV") :
                      j < i /\ calls[c][j].ok
               /\ desc[c].level = "Top" =>
                      \E j \in CallsOf(c, "vkCreateBuffer"),
                         k \in CallsOf(c, "vkBindBufferMemory"),
                         l \in CallsOf(c, "memcpy") :
                          /\ j < k /\ k < l /\ l < i
                          /\ calls[c][j].ok /\ calls[c][k].ok
                          /\ calls[c][l].bytes = obj[c].mInstances
                          /\ Len(obj[c].mInstances) = Len(desc[c].instances)

C19_Witness ==
    \E c, k \in Containers :
        /\ pc[c] = "returned" /\ desc[c].level = "Top"
        /\ Len(desc[c].instances) = MaxInstances
        /\ Cardinality(BindCallsOf(c)) = 1
        /\ pc[k] = "discarded" /\ bindCalls[k] = <<"failed">>

\* the scratch reservation of c came to the point of binding: the driver
\* answered the requirement queries and every allocation succeeded
ReachedBind(c) ==
    /\ \E i \in CallsOf(c, "AllocateMemory") : calls[c][i].class = "object"
    /\ \A i \in DOMAIN calls[c] :
           calls[c][i].call \in {"AllocateMemory",
                                 "CreateBufferFromResourceMemoryAllocation"}
               => calls[c][i].ok
    /\ Reported(c, "update") # {}
    /\ \/ \E i \in CallsOf(c, "AllocateMemory") : calls[c][i].class = "update"
       \/ obj[c].mScratchMemory.update = NoAllocation

\* the object allocation of c resolved to no memory
NoObjectMemory(c) ==
    \E i \in CallsOf(c, "AllocateMemory") :
        calls[c][i].class = "object" /\ calls[c][i].memory = VK_NULL_HANDLE

\* C20: when the scratch reservation comes to the bind (on a device that has
\* the bind entry point): if the object allocation resolved to no memory,
\* Initialize fails with MemoryBindFailed and the bind call is not issued;
\* otherwise the bind call is issued once, and if the driver fails it that
\* status is the error of Initialize and the handle is not fetched.
C20_BindFailures ==
    \A c \in Containers :
        (ReachedBind(c) /\ fn.BindAccelerationStructureMemoryNV) =>
            IF NoObjectMemory(c)
            THEN /\ result[c] = "MemoryBindFailed"
                 /\ failStep[c] = "scratch"
                 /\ BindCallsOf(c) = {}
                 /\ CallsOf(c, "vkGetAccelerationStructureHandleNV") = {}
            ELSE /\ Cardinality(BindCallsOf(c)) = 1
                 /\ \A i \in BindCallsOf(c) :
                        ~calls[c][i].ok =>
                            /\ result[c] = "vkBindAccelerationStructureMemoryNV"
                            /\ failStep[c] = "scratch"
                            /\ pc[c] = "discarded"
                            /\ CallsOf(c, "vkGetAccelerationStructureHandleNV")
                                   = {}

C20_Witness ==
    \E c \in Containers :
        /\ fn.BindAccelerationStructureMemoryNV
        /\ desc[c].level = "Top"
        /\ ReachedBind(c) /\ NoObjectMemory(c)
        /\ result[c] = "MemoryBindFailed"
        /\ BindCallsOf(c) = {}

C22_InstancesReferenceBottom ==
    [][\A c \in Containers :
           (pc[c] = "instances" /\ pc'[c] = "instanceBuffer") =>
               \A i \in DOMAIN desc[c].instances :
                   obj[desc[c].instances[i].geometryContainer].mLevel =
                       "VK_ACCELERATION_STRUCTURE_TYPE_BOTTOM_LEVEL_NV"]_vars

\* the calls of Initialize that create a native object or allocate memory
CreatingCalls ==
    {"vkCreateAccelerationStructureNV", "vkCreateBuffer", "AllocateMemory",
     "CreateBufferFromResourceMemoryAllocation"}

Creations(c) == {i \in DOMAIN calls[c] : calls[c][i].call \in CreatingCalls}

\* C23: an Initialize that failed in the capability check or in geometry
\* validation made no call that creates a resource and left no structure,
\* buffer or allocation; one that failed with InvalidAccelerationHandle
\* made exactly one such call, the creation of the acceleration structure,
\* which succeeded, and created no buffer and allocated no memory.
C23_FailureFootprint ==
    \A c \in Containers :
        pc[c] = "discarded" =>
            /\ failStep[c] \in {"capability", "geometry"} =>
                   /\ Creations(c) = {}
                   /\ created[c] = {}
                   /\ \A k \in ResourceKinds : <<c, k>> \notin live
            /\ result[c] = "InvalidAccelerationHandle" =>
                   /\ created[c] = {"accelerationStructure"}
                   /\ Cardinality(Creations(c)) = 1
                   /\ \A i \in Creations(c) :
                          /\ calls[c][i].call =
                                 "vkCreateAccelerationStructureNV"
                          /\ calls[c][i].ok

C23_Witness ==
    \E c \in Containers :
        /\ pc[c] = "discarded"
        /\ failStep[c] = "instances"
        /\ result[c] = "InvalidAccelerationHandle"
        /\ Len(desc[c].instances) = MaxInstances
        /\ Creations(c) # {}

====
